---- MODULE Spec2Model ----
(***************************************************************************)
(* Pioneer air-conditioner serial protocol: temperature codec, XOR         *)
(* checksum, command-frame encoder (generate_message) and the frame        *)
(* decoder / controller that the header pioneer.h declares.                *)
(*                                                                         *)
(* Bytes are naturals 0..255.  Temperatures are counted in eighths of a    *)
(* degree Celsius, so that values between two quarter degrees exist and    *)
(* toNearestQuarter has something to round.                                *)
(***************************************************************************)
EXTENDS Integers, Sequences, FiniteSets, TLC

VARIABLES
    args,       \* arguments of the pending generate_message call
    out,        \* outcome of the last generate_message call
    celsius,    \* temperature handed to the codec (eighths of a degree)
    hex,        \* result of tempToPioneerHex
    back,       \* result of fromPioneerHex on hex
    my_bytes,   \* byte sequence handed to the checksum functions
    sum,        \* result of calc_xor_checksum
    flipped,    \* the sequence with one bit flipped (or the sequence itself)
    verdict,    \* result of check_xor_checksum
    wire,       \* bytes on the serial link not yet read by the controller
    sent,       \* what the unit put on the link (scenario record)
    dec,        \* FrameDecoder: state, buffer, expected_length
    published,  \* state last published by the controller
    log         \* frames completed so far, with the byte count at completion

vars == <<args, out, celsius, hex, back, my_bytes, sum, flipped, verdict,
          wire, sent, dec, published, log>>

encVars == <<args, out>>
tempVars == <<celsius, hex, back>>
sumVars == <<my_bytes, sum, flipped, verdict>>
decVars == <<wire, sent, dec, published, log>>

----------------------------------------------------------------------------
(* Bounds of the model *)

\* number of optional arguments a call passes with a value other than its default
MaxNonDefault == 2
\* longest byte sequence handed to the checksum functions
MaxLen == 3
\* highest temperature handed to the codec, in degrees
MaxCelsius == 33
\* most bytes the controller finds available on the link in one poll
MaxBurst == 2

----------------------------------------------------------------------------
(* unsigned char arithmetic *)

Byte == 0..255

Bit(a, k) == (a \div (2 ^ k)) % 2

Nibble == 0..15

\* the three bitwise operators on half bytes, bit by bit
OrTable ==
    [ a \in Nibble, b \in Nibble |->
        LET o(k) == (IF Bit(a, k) = 1 \/ Bit(b, k) = 1 THEN 1 ELSE 0) * (2 ^ k)
        IN  o(0) + o(1) + o(2) + o(3) ]

AndTable ==
    [ a \in Nibble, b \in Nibble |->
        LET o(k) == (IF Bit(a, k) = 1 /\ Bit(b, k) = 1 THEN 1 ELSE 0) * (2 ^ k)
        IN  o(0) + o(1) + o(2) + o(3) ]

XorTable ==
    [ a \in Nibble, b \in Nibble |->
        LET o(k) == ((Bit(a, k) + Bit(b, k)) % 2) * (2 ^ k)
        IN  o(0) + o(1) + o(2) + o(3) ]

\* a | b on unsigned char
Or8(a, b) == 16 * OrTable[a \div 16, b \div 16] + OrTable[a % 16, b % 16]

\* a & b on unsigned char
And8(a, b) == 16 * AndTable[a \div 16, b \div 16] + AndTable[a % 16, b % 16]

\* a ^ b on unsigned char
Xor8(a, b) == 16 * XorTable[a \div 16, b \div 16] + XorTable[a % 16, b % 16]

\* ~m, truncated to the unsigned char it is stored into
Not8(m) == 255 - m

----------------------------------------------------------------------------
(* The enumerations, by their numeric codes *)

SleepMode == {0, 1, 2, 3}
WindSpeed == 0..7
WindSpeed_AUTO == 0
WindSpeed_SIX == 6
WindSpeed_MUTE == 7
Mode == {1, 2, 3, 7, 8}
Mode_HEAT == 1
FanUpDown == {0, 24, 16, 8, 1, 2, 3, 4, 5}
FanUpDown_AUTO == 0
FanLeftRight == {0, 8, 16, 24, 32, 1, 2, 3, 4, 5}
FanLeftRight_AUTO == 0

----------------------------------------------------------------------------
(* Temperature codec.  A temperature is t8 eighths of a degree. *)

\* floor(num * 4) / 4, as a number of quarter degrees
toNearestQuarter(t8) == t8 \div 2

\* the table of tempToPioneerHex; operator[] yields 0 for a missing key
final_nibble_options(frac) ==
    CASE frac = 0 -> 0
      [] frac = 1 -> 4
      [] frac = 2 -> 8
      [] frac = 3 -> 12
      [] OTHER -> 0

\* static_cast<int>(celsius) truncates towards zero
TruncInt(q) == IF q >= 0 THEN q \div 4 ELSE -((-q) \div 4)

\* mutant: the fraction is dropped, the second byte is always 0
tempToPioneerHex_whole(t8) ==
    LET q == toNearestQuarter(t8)
        first_nibble == (31 - TruncInt(q)) % 256
    IN  <<first_nibble, 0>>

tempToPioneerHex(t8) ==
    LET q == toNearestQuarter(t8)
        first_nibble == (31 - TruncInt(q)) % 256
        final_nibble == final_nibble_options(q - 4 * (q \div 4))
    IN  <<first_nibble, final_nibble>>

\* the table of fromPioneerHex, in quarter degrees; 0.0 for a missing key
from_nibble_options(last_nibble) ==
    CASE last_nibble = 0 -> 0
      [] last_nibble = 4 -> 1
      [] last_nibble = 8 -> 2
      [] last_nibble = 12 -> 3
      [] OTHER -> 0

\* the decoded temperature, in eighths of a degree
fromPioneerHex(first_nibble, last_nibble) ==
    2 * (4 * (31 - first_nibble) + from_nibble_options(last_nibble))

----------------------------------------------------------------------------
(* XOR checksum *)

\* result after the loop has folded the first n bytes of s
RECURSIVE XorFold(_, _)
XorFold(s, n) == IF n = 0 THEN 0 ELSE Xor8(XorFold(s, n - 1), s[n])

calc_xor_checksum(bytes) == XorFold(bytes, Len(bytes))

\* mutant: pop_back() forgotten, the fold runs over the checksum byte too
check_xor_checksum_no_pop(bytes) ==
    LET current_checksum == bytes[Len(bytes)]
    IN  XorFold(bytes, Len(bytes)) = current_checksum

\* mutant: the fold result is compared with front() instead of back()
check_xor_checksum_front(bytes) ==
    LET rest == SubSeq(bytes, 1, Len(bytes) - 1)
    IN  XorFold(rest, Len(rest)) = bytes[1]

\* back(), pop_back(), fold, compare
check_xor_checksum(bytes) ==
    LET current_checksum == bytes[Len(bytes)]
        rest == SubSeq(bytes, 1, Len(bytes) - 1)
    IN  XorFold(rest, Len(rest)) = current_checksum

get_unknown_message(num) ==
    LET messages == <<
            <<187, 0, 1, 4, 2, 1, 0, 189>>,
            <<187, 0, 1, 10, 3, 5, 0, 0, 182>>,
            <<187, 0, 1, 9, 2, 5, 0, 180>>,
            <<187, 0, 1, 10, 3, 5, 0, 8, 190>> >>
    IN  messages[num]

----------------------------------------------------------------------------
(* generate_message *)

\* the declared defaults of the optional parameters
Defaults ==
    [ wind_speed |-> WindSpeed_AUTO, up_down_mode |-> FanUpDown_AUTO,
      left_right_mode |-> FanLeftRight_AUTO, sleep_mode |-> 0,
      is_on |-> TRUE, is_display_on |-> TRUE, is_buzzer_on |-> TRUE,
      is_eco |-> FALSE, is_8_deg_heater |-> FALSE, is_health_on |-> FALSE ]

OptionalParams == DOMAIN Defaults

\* the call main() makes: generate_message(Mode::HEAT, 20)
MainArgs ==
    [ mode |-> Mode_HEAT, temp_celsius |-> 160,
      wind_speed |-> Defaults.wind_speed, up_down_mode |-> Defaults.up_down_mode,
      left_right_mode |-> Defaults.left_right_mode, sleep_mode |-> Defaults.sleep_mode,
      is_on |-> Defaults.is_on, is_display_on |-> Defaults.is_display_on,
      is_buzzer_on |-> Defaults.is_buzzer_on, is_eco |-> Defaults.is_eco,
      is_8_deg_heater |-> Defaults.is_8_deg_heater,
      is_health_on |-> Defaults.is_health_on ]

\* mutant: the range check with the bounds excluded
OutOfRange_exclusive(t8) == t8 >= 8 * 31 \/ t8 <= 8 * 16

\* temp_celsius > 31 || temp_celsius < 16
OutOfRange(t8) == t8 > 8 * 31 \/ t8 < 8 * 16

\* mutant: the header with the count of the bytes that follow as fourth byte
message_counted == <<187, 0, 1, 25>>

\* std::vector<unsigned char> message = {0xbb, 0x00, 0x01, 0x03}
message == <<187, 0, 1, 3>>

\* mutant: the template with byte 4 left at zero
command_byte4_zero ==
    [ i \in 0..23 |->
        CASE i = 6 -> 4
          [] i = 7 -> 128
          [] i = 22 -> 128
          [] i = 23 -> 153
          [] OTHER -> 0 ]

\* std::vector<unsigned char> command = {...}: 24 bytes, indexed from 0
command ==
    [ i \in 0..23 |->
        CASE i = 4 -> 92
          [] i = 6 -> 4
          [] i = 7 -> 128
          [] i = 22 -> 128
          [] i = 23 -> 153
          [] OTHER -> 0 ]

(* Each statement command[i] = command[i] | v (or & v) is a triple           *)
(* <<i, op, v>>; the body of generate_message is the list of its statements  *)
(* in program order.                                                         *)

FlagWrites(a) ==
    (IF a.is_on THEN << <<3, "or", 4>> >> ELSE <<>>)
    \o (IF a.is_display_on THEN << <<3, "or", 64>> >> ELSE <<>>)
    \o (IF a.is_buzzer_on THEN << <<3, "or", 32>> >> ELSE <<>>)
    \o (IF a.is_eco THEN << <<3, "or", 128>> >> ELSE <<>>)
    \o (IF a.is_8_deg_heater THEN << <<6, "or", 128>> >> ELSE <<>>)
    \o (IF a.is_health_on THEN << <<4, "or", 16>> >> ELSE <<>>)

SleepWrites(a) == << <<15, "or", a.sleep_mode>> >>

\* std::map<int, unsigned char> speeds; operator[] yields 0 for a missing key
speeds(w) ==
    CASE w = 1 -> 2
      [] w = 2 -> 6
      [] w = 3 -> 3
      [] w = 4 -> 7
      [] w = 5 -> 5
      [] OTHER -> 0

\* mutant: the numbered speeds clear 0xcf of byte 4 instead of 0xc0
WindWrites_wide_mask(a) ==
    IF a.wind_speed = WindSpeed_AUTO THEN <<>>
    ELSE IF a.wind_speed = WindSpeed_MUTE THEN << <<4, "or", 128>>, <<6, "or", 2>> >>
    ELSE IF a.wind_speed = WindSpeed_SIX THEN << <<4, "or", 64>>, <<6, "or", 5>> >>
    ELSE << <<4, "and", Not8(207)>>, <<6, "or", speeds(a.wind_speed)>> >>

WindWrites(a) ==
    IF a.wind_speed = WindSpeed_AUTO THEN <<>>
    ELSE IF a.wind_speed = WindSpeed_MUTE THEN << <<4, "or", 128>>, <<6, "or", 2>> >>
    ELSE IF a.wind_speed = WindSpeed_SIX THEN << <<4, "or", 64>>, <<6, "or", 5>> >>
    ELSE << <<4, "and", Not8(192)>>, <<6, "or", speeds(a.wind_speed)>> >>

ModeWrites(a) == << <<4, "or", a.mode>> >>

TempWrites(a) ==
    LET temp_bytes == tempToPioneerHex(a.temp_celsius)
    IN  << <<9, "or", temp_bytes[1]>>, <<11, "or", temp_bytes[2]>> >>

UpDownWrites(a) ==
    (IF a.up_down_mode \in {24, 16, 8} THEN << <<6, "or", 56>> >> ELSE <<>>)
    \o << <<28, "or", a.up_down_mode>> >>

LeftRightWrites(a) ==
    (IF a.left_right_mode \in {8, 16, 24, 32} THEN << <<7, "or", 8>> >> ELSE <<>>)
    \o << <<29, "or", a.left_right_mode>> >>

\* the statements of generate_message after the range check, in program order
Writes(a) ==
    FlagWrites(a) \o SleepWrites(a) \o WindWrites(a) \o ModeWrites(a)
    \o TempWrites(a) \o UpDownWrites(a) \o LeftRightWrites(a)

\* one statement on the vector c.  An index outside the vector is undefined
\* behaviour; where the build lets the access through, it touches memory that
\* is not part of the vector, and the vector keeps its 24 bytes.
Store(c, w) ==
    IF w[1] \notin DOMAIN c THEN c
    ELSE IF w[2] = "or" THEN [c EXCEPT ![w[1]] = Or8(@, w[3])]
    ELSE [c EXCEPT ![w[1]] = And8(@, w[3])]

RECURSIVE ApplyWrites(_, _)
ApplyWrites(c, ws) ==
    IF ws = <<>> THEN c ELSE ApplyWrites(Store(c, Head(ws)), Tail(ws))

\* the command vector when the loop copies it into message
CommandBody(a) == ApplyWrites(command, Writes(a))

\* the indices of command that the statements access
AccessedIndices(a) == { Writes(a)[k][1] : k \in 1..Len(Writes(a)) }

\* the call runs into undefined behaviour: an index outside the vector
HasOutOfBounds(a) == \E i \in AccessedIndices(a) : i \notin DOMAIN command

\* message after the push_back loop and the checksum push_back
Frame(a) ==
    LET body == CommandBody(a)
        m == message \o [ i \in 1..24 |-> body[i - 1] ]
    IN  Append(m, calc_xor_checksum(m))

NotCalled == [st |-> "none", bytes |-> <<>>]
Empty == [st |-> "empty", bytes |-> <<>>]
Aborted == [st |-> "abort", bytes |-> <<>>]

\* The outcomes of one call.  Out of range: the empty vector.  Otherwise the
\* frame, or, when a statement indexes outside the vector, whatever the build
\* makes of it: the access goes through and the frame is returned, or the
\* process is stopped (a checked operator[], a corrupted heap) and nothing is.
generate_message(a) ==
    IF OutOfRange(a.temp_celsius) THEN { Empty }
    ELSE { [st |-> "frame", bytes |-> Frame(a)] }
         \cup (IF HasOutOfBounds(a) THEN { Aborted } ELSE {})

----------------------------------------------------------------------------
(* Encoder specification: the inputs of one call are drawn from the bounded *)
(* input space, and Call applies generate_message to them.                  *)

\* temperatures the caller asks for, in eighths of a degree:
\* 15.5, 15.875, 16, 16.125, 20, 20.25, 25.5, 30.75, 31, 31.125, 31.5
Temperatures == {124, 127, 128, 129, 160, 162, 204, 246, 248, 249, 252}

ParamValues ==
    [ wind_speed |-> WindSpeed, up_down_mode |-> FanUpDown,
      left_right_mode |-> FanLeftRight, sleep_mode |-> SleepMode,
      is_on |-> BOOLEAN, is_display_on |-> BOOLEAN, is_buzzer_on |-> BOOLEAN,
      is_eco |-> BOOLEAN, is_8_deg_heater |-> BOOLEAN, is_health_on |-> BOOLEAN ]

\* the argument lists that differ from a in at most k optional parameters
RECURSIVE Variants(_, _)
Variants(a, k) ==
    IF k = 0 THEN {a}
    ELSE UNION { Variants([a EXCEPT ![p] = v], k - 1) :
                    <<p, v>> \in UNION { {p} \X ParamValues[p] : p \in OptionalParams } }

\* every mode and temperature, with at most MaxNonDefault optional
\* parameters away from their declared defaults
ArgSpace ==
    { [b EXCEPT !.mode = m, !.temp_celsius = t] :
        b \in Variants(MainArgs, MaxNonDefault), m \in Mode, t \in Temperatures }

IdleEnc == args = MainArgs /\ out = NotCalled
IdleTemp == celsius = 0 /\ hex = <<>> /\ back = -1
IdleSum == my_bytes = <<>> /\ sum = -1 /\ flipped = <<>> /\ verdict = "none"
IdleDec ==
    /\ wire = <<>>
    /\ sent = [kind |-> "none"]
    /\ dec = [state |-> "AwaitingSignature", buffer |-> <<>>, expected_length |-> 0]
    /\ published = "none"
    /\ log = <<>>

Init ==
    /\ args \in ArgSpace
    /\ out = NotCalled
    /\ IdleTemp /\ IdleSum /\ IdleDec

\* the caller calls generate_message with the arguments it holds
Call ==
    /\ out = NotCalled
    /\ out' \in generate_message(args)
    /\ UNCHANGED <<args, tempVars, sumVars, decVars>>

Next == Call

Spec == Init /\ [][Next]_vars

----------------------------------------------------------------------------
(* Claims about generate_message, checked under Spec *)

\* byte i of the 24-byte body inside a frame (the body follows the 4 header bytes)
BodyByte(bytes, i) == bytes[5 + i]

\* the temperature lies in [16, 31]
InRange(t8) == 8 * 16 <= t8 /\ t8 <= 8 * 31

\* C1: every call with a temperature in [16, 31] returns a well-formed frame:
\* 29 bytes, bb 00 01 03 first, and a last byte that is the XOR of the 28
\* bytes before it.  (Violated: the call indexes command[28] and command[29]
\* of a 24-byte vector and need not return at all.)
C1_EveryCallReturnsFrame ==
    (out # NotCalled /\ InRange(args.temp_celsius)) =>
        /\ out.st = "frame"
        /\ Len(out.bytes) = 29
        /\ SubSeq(out.bytes, 1, 4) = <<187, 0, 1, 3>>
        /\ out.bytes[29] = XorFold(out.bytes, 28)
        /\ check_xor_checksum(out.bytes)

\* What does hold of C1's frames: every frame that a call returns is
\* well-formed (an in-range call that returns, returns 29 bytes with the
\* header and a valid checksum).
ReturnedFramesWellFormed ==
    out.st = "frame" =>
        /\ InRange(args.temp_celsius)
        /\ Len(out.bytes) = 29
        /\ SubSeq(out.bytes, 1, 4) = <<187, 0, 1, 3>>
        /\ out.bytes[29] = XorFold(out.bytes, 28)
        /\ check_xor_checksum(out.bytes)

\* C2: the call returns the empty byte sequence exactly when the temperature
\* is below 16 or above 31, whatever the other arguments are.
C2_EmptyIffOutOfRange ==
    out # NotCalled =>
        ((out.st = "empty" /\ out.bytes = <<>>)
            <=> (args.temp_celsius < 8 * 16 \/ args.temp_celsius > 8 * 31))

\* C2 witness: 15.5 degrees with a non-default fan speed was rejected
C2_Witness ==
    out.st = "empty" /\ args.temp_celsius = 124 /\ args.wind_speed = 3

\* C5 as stated: generate_message(Heat, 20.0) with every optional argument at
\* its default returns bb 00 01 03, a body that is zero except 0x04 at offset
\* 3, 0x01 at offset 4, 0x0b at offset 9, and the XOR checksum.
C5_Original ==
    (args = MainArgs /\ out.st = "frame") =>
        LET body == [ i \in 1..24 |->
                        CASE i - 1 = 3 -> 4
                          [] i - 1 = 4 -> 1
                          [] i - 1 = 9 -> 11
                          [] OTHER -> 0 ]
            m == <<187, 0, 1, 3>> \o body
        IN  out.bytes = Append(m, XorFold(m, 28))

\* C5 amended: a frame returned by generate_message(Heat, 20.0) with every
\* optional argument at its default is bb 00 01 03, the template body with
\* 0x64 at offset 3 (power, display and buzzer are on by default), 0x5d at
\* offset 4 (template 0x5c | Heat), 0x0b at offset 9, 0x00 at offset 11 and
\* the template's 0x04, 0x80, 0x80, 0x99 at offsets 6, 7, 22, 23, then the
\* XOR checksum 0x16.
C5_MainFrame ==
    (args = MainArgs /\ out.st = "frame") =>
        out.bytes = <<187, 0, 1, 3,
                      0, 0, 0, 100, 93, 0, 4, 128, 0, 11, 0, 0,
                      0, 0, 0, 0, 0, 0, 0, 0, 0, 0, 128, 153,
                      22>>

\* C5 witness: main()'s call returned a frame
C5_Witness == args = MainArgs /\ out.st = "frame"

\* the stores of a call that fall outside the 24-byte vector
OutsideWrites(a) ==
    { Writes(a)[k] : k \in { j \in 1..Len(Writes(a)) : Writes(a)[j][1] \notin DOMAIN command } }

\* C6: the frame differs from the frame of the same call with fan speed Auto
\* in no bit of the mode region (low nibble of body byte 4), the temperature
\* bytes (9 and 11) and the swing regions (0x38 of byte 6, 0x08 of byte 7,
\* and the swing codes stored at 28 and 29).
C6_FanLeavesOtherFields ==
    out.st = "frame" =>
        LET auto == [args EXCEPT !.wind_speed = WindSpeed_AUTO]
            ref == Frame(auto)
        IN  /\ And8(BodyByte(out.bytes, 4), 15) = And8(BodyByte(ref, 4), 15)
            /\ BodyByte(out.bytes, 9) = BodyByte(ref, 9)
            /\ BodyByte(out.bytes, 11) = BodyByte(ref, 11)
            /\ And8(BodyByte(out.bytes, 6), 56) = And8(BodyByte(ref, 6), 56)
            /\ And8(BodyByte(out.bytes, 7), 8) = And8(BodyByte(ref, 7), 8)
            /\ OutsideWrites(args) = OutsideWrites(auto)

\* C6 witness: a frame for Speed3 with a flow swing, different from the Auto frame
C6_Witness ==
    /\ out.st = "frame"
    /\ args.wind_speed = 3
    /\ args.up_down_mode = 16
    /\ out.bytes # Frame([args EXCEPT !.wind_speed = WindSpeed_AUTO])

\* C7 as stated: in every frame the code produces or holds as a constant, the
\* fourth byte is the number of bytes that follow it.
C7_Original ==
    /\ out.st = "frame" => out.bytes[4] = Len(out.bytes) - 4
    /\ \A n \in 1..4 :
          get_unknown_message(n)[4] = Len(get_unknown_message(n)) - 4

\* C7 amended: every frame generate_message returns has 0x03 as fourth byte
\* and 25 bytes after it (29 in all); of the four get_unknown_message
\* constants only the first has a fourth byte equal to the number of bytes
\* after it, and each of the four is 6 + (its fifth byte) bytes long.
C7_FourthByteIsNotLength ==
    /\ out.st = "frame" => (out.bytes[4] = 3 /\ Len(out.bytes) = 4 + 25)
    /\ { n \in 1..4 : get_unknown_message(n)[4] = Len(get_unknown_message(n)) - 4 } = {1}
    /\ \A n \in 1..4 :
          Len(get_unknown_message(n)) = 6 + get_unknown_message(n)[5]

\* C7 witness: a frame was returned for a non-default call
C7_Witness == out.st = "frame" /\ args.sleep_mode = 2 /\ args.is_eco

\* C10: with every other argument fixed, the eight fan speeds yield eight
\* pairwise distinct frames.  (Violated: Speed1 and Speed2, and Speed3 and
\* Speed4, give the same frame.)
C10_FanSpeedsDistinct ==
    out.st = "frame" =>
        \A w \in WindSpeed \ {args.wind_speed} :
            Frame([args EXCEPT !.wind_speed = w]) # out.bytes

\* C11: in every frame the low nibble of body byte 4 is the numeric code of
\* the requested mode, and the five modes give five pairwise distinct values
\* of body byte 4 when the other arguments are fixed.  (Violated: the template
\* holds 0x5c at byte 4, so the low nibble is 0xc | mode, and Cool (0x3) and
\* Fan (0x7) both give 0xf.)
C11_ModeRecoverable ==
    out.st = "frame" =>
        /\ And8(BodyByte(out.bytes, 4), 15) = args.mode
        /\ \A m \in Mode \ {args.mode} :
              BodyByte(Frame([args EXCEPT !.mode = m]), 4) # BodyByte(out.bytes, 4)

\* What the code does do with the mode: the low nibble of body byte 4 is the
\* template's 0xc ORed with the mode code, whatever the other arguments are.
ModeNibbleIsTemplateOrMode ==
    out.st = "frame" =>
        And8(BodyByte(out.bytes, 4), 15) = Or8(12, args.mode)

\* C12: in every frame, body byte 3 has bit 0x04 set iff power is on, 0x40
\* iff display is on, 0x20 iff buzzer is on, 0x80 iff eco is on; body byte 6
\* has bit 0x80 set iff the 8-degree heater flag is on; body byte 4 has bit
\* 0x10 set iff the health flag is on.  (Violated: the template's 0x5c at
\* byte 4 has bit 0x10 set, so the bit is set with the health flag off.)
C12_FlagsReflected ==
    out.st = "frame" =>
        /\ (And8(BodyByte(out.bytes, 3), 4) = 4) <=> args.is_on
        /\ (And8(BodyByte(out.bytes, 3), 64) = 64) <=> args.is_display_on
        /\ (And8(BodyByte(out.bytes, 3), 32) = 32) <=> args.is_buzzer_on
        /\ (And8(BodyByte(out.bytes, 3), 128) = 128) <=> args.is_eco
        /\ (And8(BodyByte(out.bytes, 6), 128) = 128) <=> args.is_8_deg_heater
        /\ (And8(BodyByte(out.bytes, 4), 16) = 16) <=> args.is_health_on

\* What does hold of C12's flags: the five flags of bytes 3 and 6 are
\* reflected by exactly their bits, and bit 0x10 of byte 4 is set in every
\* frame, so the frame is the same with the health flag on and off.
FlagsOtherThanHealthReflected ==
    out.st = "frame" =>
        /\ (And8(BodyByte(out.bytes, 3), 4) = 4) <=> args.is_on
        /\ (And8(BodyByte(out.bytes, 3), 64) = 64) <=> args.is_display_on
        /\ (And8(BodyByte(out.bytes, 3), 32) = 32) <=> args.is_buzzer_on
        /\ (And8(BodyByte(out.bytes, 3), 128) = 128) <=> args.is_eco
        /\ (And8(BodyByte(out.bytes, 6), 128) = 128) <=> args.is_8_deg_heater
        /\ And8(BodyByte(out.bytes, 4), 16) = 16
        /\ out.bytes = Frame([args EXCEPT !.is_health_on = ~args.is_health_on])

\* the statements of generate_message with the mode statement (line 245)
\* moved in front of the fan-speed statements (lines 232-243)
WritesModeFirst(a) ==
    FlagWrites(a) \o SleepWrites(a) \o ModeWrites(a) \o WindWrites(a)
    \o TempWrites(a) \o UpDownWrites(a) \o LeftRightWrites(a)

\* the frame of the encoder that applies the mode before the fan speed
FrameModeFirst(a) ==
    LET body == ApplyWrites(command, WritesModeFirst(a))
        m == message \o [ i \in 1..24 |-> body[i - 1] ]
    IN  Append(m, calc_xor_checksum(m))

\* C13 as stated: for the fan speeds Speed1..Speed5 there is a mode for which
\* the encoder that ORs the mode into body byte 4 before the fan-speed step
\* gives other mode bits (low nibble of body byte 4) than generate_message.
C13_Original ==
    (out.st = "frame" /\ args.wind_speed \in 1..5) =>
        \E m \in Mode :
            LET b == [args EXCEPT !.mode = m]
            IN  And8(BodyByte(FrameModeFirst(b), 4), 15)
                    # And8(BodyByte(Frame(b), 4), 15)

\* C13 amended: the order of the fan-speed step and the mode step makes no
\* difference.  The fan-speed step clears only bits 0xc0 of body byte 4 and
\* every mode code lies below 0x10, so for every fan speed and every mode the
\* encoder that applies the mode first returns the frame generate_message
\* returns, byte for byte.
C13_OrderMakesNoDifference ==
    out.st = "frame" =>
        /\ \A m \in Mode : And8(m, 192) = 0
        /\ FrameModeFirst(args) = out.bytes

\* C13 witness: a frame for Speed2 in mode Cool, where the fan-speed step
\* did clear bit 0x40 of the template's byte 4
C13_Witness ==
    /\ out.st = "frame"
    /\ args.wind_speed = 2
    /\ args.mode = 3
    /\ And8(BodyByte(out.bytes, 4), 192) = 0
    /\ And8(command[4], 192) # 0

\* C14: every index of command that a call reads or writes lies inside the
\* 24-byte vector (0..23).  (Violated: every call that passes the range check
\* ORs the swing codes into command[28] and command[29].)
C14_IndicesInsideBody ==
    (out # NotCalled /\ ~OutOfRange(args.temp_celsius)) =>
        \A i \in AccessedIndices(args) : i \in 0..23

\* What does hold of C14's indices: a call that passes the range check
\* accesses indices 28 and 29, and these are its only indices outside 0..23.
OnlySwingStoresOutside ==
    (out # NotCalled /\ ~OutOfRange(args.temp_celsius)) =>
        /\ AccessedIndices(args) \ (0..23) = {28, 29}
        /\ OutsideWrites(args) =
              { <<28, "or", args.up_down_mode>>, <<29, "or", args.left_right_mode>> }
        /\ DOMAIN command = 0..23

----------------------------------------------------------------------------
(* Codec specification: a temperature is encoded, then decoded *)

InitTemp ==
    /\ celsius \in 0..(8 * MaxCelsius)
    /\ hex = <<>>
    /\ back = -1
    /\ IdleEnc /\ IdleSum /\ IdleDec

Encode ==
    /\ hex = <<>>
    /\ hex' = tempToPioneerHex(celsius)
    /\ UNCHANGED <<celsius, back, encVars, sumVars, decVars>>

DecodeTemp ==
    /\ hex # <<>>
    /\ back = -1
    /\ back' = fromPioneerHex(hex[1], hex[2])
    /\ UNCHANGED <<celsius, hex, encVars, sumVars, decVars>>

NextTemp == Encode \/ DecodeTemp

SpecTemp == InitTemp /\ [][NextTemp]_vars

\* C3: for every quarter-degree value t in [16, 31], fromPioneerHex of the two
\* bytes of tempToPioneerHex(t) is t.
C3_RoundTrip ==
    (back # -1 /\ celsius % 2 = 0 /\ 8 * 16 <= celsius /\ celsius <= 8 * 31)
        => back = celsius

\* C3 witness: 23.75 degrees went through both functions and came back
C3_Witness == celsius = 8 * 23 + 6 /\ hex = <<8, 12>> /\ back = celsius

----------------------------------------------------------------------------
(* Checksum specification: a sequence is summed, one bit of it is flipped   *)
(* or not, and the result followed by the sum is verified.                  *)

ByteSample == {0, 1, 92, 128, 187, 255}

RECURSIVE SeqsUpTo(_, _)
SeqsUpTo(S, n) ==
    IF n = 0 THEN { <<>> }
    ELSE SeqsUpTo(S, n - 1)
         \cup { Append(q, x) : q \in { r \in SeqsUpTo(S, n - 1) : Len(r) = n - 1 }, x \in S }

InitSum ==
    /\ my_bytes \in SeqsUpTo(ByteSample, MaxLen) \ { <<>> }
    /\ sum = -1
    /\ flipped = <<>>
    /\ verdict = "none"
    /\ IdleEnc /\ IdleTemp /\ IdleDec

Calc ==
    /\ sum = -1
    /\ sum' = calc_xor_checksum(my_bytes)
    /\ UNCHANGED <<my_bytes, flipped, verdict, encVars, tempVars, decVars>>

\* the sequence is left as it is
Keep ==
    /\ sum # -1 /\ flipped = <<>>
    /\ flipped' = my_bytes
    /\ UNCHANGED <<my_bytes, sum, verdict, encVars, tempVars, decVars>>

\* bit k of byte i is flipped
Flip ==
    /\ sum # -1 /\ flipped = <<>>
    /\ \E i \in 1..Len(my_bytes), k \in 0..7 :
          flipped' = [my_bytes EXCEPT ![i] = Xor8(@, 2 ^ k)]
    /\ UNCHANGED <<my_bytes, sum, verdict, encVars, tempVars, decVars>>

Check ==
    /\ flipped # <<>> /\ verdict = "none"
    /\ verdict' = IF check_xor_checksum(Append(flipped, sum)) THEN "valid" ELSE "invalid"
    /\ UNCHANGED <<my_bytes, sum, flipped, encVars, tempVars, decVars>>

NextSum == Calc \/ Keep \/ Flip \/ Check

SpecSum == InitSum /\ [][NextSum]_vars

\* the number of bit positions in which two sequences of equal length differ
BitDistance(x, y) ==
    Cardinality({ <<i, k>> \in (1..Len(x)) \X (0..7) : Bit(x[i], k) # Bit(y[i], k) })

\* C4: b followed by calc_xor_checksum(b) verifies, and b with exactly one
\* bit flipped followed by calc_xor_checksum(b) does not.
C4_ChecksumSound ==
    verdict # "none" =>
        /\ BitDistance(flipped, my_bytes) = 0 => verdict = "valid"
        /\ BitDistance(flipped, my_bytes) = 1 => verdict = "invalid"

\* C4 witness: a two-byte sequence with one flipped bit was refused
C4_Witness ==
    /\ Len(my_bytes) = 2
    /\ BitDistance(flipped, my_bytes) = 1
    /\ verdict = "invalid"

----------------------------------------------------------------------------
(* FrameDecoder and the controller's poll.  pioneer.h declares read_state_  *)
(* and the receive buffer data_ and holds no body for them; the decoder is  *)
(* modelled from the design's description of it: three states, a buffer,    *)
(* the fourth byte read as the count of the bytes that follow it.           *)

AwaitingSignatureEmpty ==
    [state |-> "AwaitingSignature", buffer |-> <<>>, expected_length |-> 0]

\* the buffer holds 4 + expected_length bytes: verify, then Complete or discard
Settle(d) ==
    IF Len(d.buffer) < 4 + d.expected_length THEN d
    ELSE IF check_xor_checksum(d.buffer)
         THEN [d EXCEPT !.state = "Complete"]
         ELSE AwaitingSignatureEmpty

\* one byte fed to the decoder
FeedByte(d, byte) ==
    LET buf == Append(d.buffer, byte)
    IN  IF d.state = "AwaitingSignature"
        THEN IF Len(buf) < 4 THEN [d EXCEPT !.buffer = buf]
             ELSE IF SubSeq(buf, 1, 3) = <<187, 0, 1>>
                  THEN Settle([state |-> "AwaitingBody", buffer |-> buf,
                               expected_length |-> buf[4]])
                  ELSE [d EXCEPT !.buffer = Tail(buf)]
        ELSE IF d.state = "AwaitingBody"
        THEN Settle([d EXCEPT !.buffer = buf])
        ELSE d

\* inverse of the fan-speed step, on the masked bytes 4 and 6; -1: unknown code
DecodeWindSpeed(b4, b6) ==
    LET hi == And8(b4, 192)
        lo == And8(b6, 7)
    IN  CASE hi = 128 /\ lo = 2 -> WindSpeed_MUTE
          [] hi = 64 /\ lo = 5 -> WindSpeed_SIX
          [] hi = 0 /\ lo = 2 -> 1
          [] hi = 0 /\ lo = 6 -> 2
          [] hi = 0 /\ lo = 3 -> 3
          [] hi = 0 /\ lo = 7 -> 4
          [] hi = 0 /\ lo = 5 -> 5
          [] hi = 0 /\ lo = 0 -> WindSpeed_AUTO
          [] OTHER -> -1

\* the CommandState read back from a complete frame, field by field at the
\* encoder's offsets and masks; -1 stands for an unknown code or a byte the
\* frame does not hold
DecodeFrame(buf) ==
    LET n == Len(buf) - 5
        b(i) == IF i < n THEN buf[5 + i] ELSE 0
        code(S, v) == IF v \in S THEN v ELSE -1
    IN  [ mode |-> code(Mode, And8(b(4), 15)),
          temp_celsius |-> fromPioneerHex(b(9), b(11)),
          wind_speed |-> DecodeWindSpeed(b(4), b(6)),
          up_down_mode |-> IF 28 < n THEN code(FanUpDown, b(28)) ELSE -1,
          left_right_mode |-> IF 29 < n THEN code(FanLeftRight, b(29)) ELSE -1,
          sleep_mode |-> And8(b(15), 3),
          is_on |-> And8(b(3), 4) # 0,
          is_display_on |-> And8(b(3), 64) # 0,
          is_buzzer_on |-> And8(b(3), 32) # 0,
          is_eco |-> And8(b(3), 128) # 0,
          is_8_deg_heater |-> And8(b(6), 128) # 0,
          is_health_on |-> And8(b(4), 16) # 0 ]

\* the controller feeds one byte; on Complete it publishes the decoded state,
\* notes the completion and resets the decoder.  c = [dec, published, log, fed]
PollByte(c, byte) ==
    LET d == FeedByte(c.dec, byte)
    IN  IF d.state = "Complete"
        THEN [ dec |-> AwaitingSignatureEmpty,
               published |-> << DecodeFrame(d.buffer) >>,
               log |-> Append(c.log, [at |-> c.fed + 1, state |-> DecodeFrame(d.buffer)]),
               fed |-> c.fed + 1 ]
        ELSE [c EXCEPT !.dec = d, !.fed = c.fed + 1]

\* the controller feeds the first n of the bytes, one at a time
RECURSIVE PollBytes(_, _, _)
PollBytes(c, bytes, n) ==
    IF n = 0 THEN c ELSE PollByte(PollBytes(c, bytes, n - 1), bytes[n])

\* a frame as the decoder expects it: bb 00 01, the count of the bytes that
\* follow, the body, the checksum
WellFormed(body) ==
    LET m == <<187, 0, 1, Len(body) + 1>> \o body
    IN  Append(m, calc_xor_checksum(m))

\* the frame with its checksum byte changed by the bits of x
CorruptChecksum(frame, x) == [frame EXCEPT ![Len(frame)] = Xor8(@, x)]

BodySeq(a) == [ i \in 1..24 |-> CommandBody(a)[i - 1] ]

\* argument lists whose frames travel on the link
LinkArgs ==
    { [b EXCEPT !.mode = m] : b \in Variants(MainArgs, 1), m \in {1, 3, 8} }

Garbage == {0, 187, 255}

\* bytes fed so far
Fed == Len(sent.stream) - Len(wire)

InitDec ==
    /\ \/ \E g \in Garbage, a \in LinkArgs :
             sent = [ kind |-> "resync", stream |-> <<g>> \o Frame(a),
                      first |-> 1, args |-> a, before |-> <<>> ]
       \/ \E g \in Garbage, a \in LinkArgs :
             sent = [ kind |-> "status", stream |-> <<g>> \o WellFormed(BodySeq(a)),
                      first |-> 1, args |-> a, before |-> <<>> ]
       \/ \E x \in {1, 128, 255}, a \in LinkArgs, p \in { <<>>, << MainArgs >> } :
             sent = [ kind |-> "corrupt",
                      stream |-> CorruptChecksum(WellFormed(BodySeq(MainArgs)), x)
                                 \o WellFormed(BodySeq(a)),
                      first |-> 29, args |-> a, before |-> p ]
    /\ wire = sent.stream
    /\ dec = AwaitingSignatureEmpty
    /\ published = sent.before
    /\ log = <<>>
    /\ IdleEnc /\ IdleTemp /\ IdleSum

\* one poll tick: the controller drains the bytes that have arrived
Poll ==
    \E n \in 1..MaxBurst :
        /\ n <= Len(wire)
        /\ LET c == PollBytes([dec |-> dec, published |-> published,
                                log |-> log, fed |-> Fed], wire, n)
           IN  /\ dec' = c.dec
               /\ published' = c.published
               /\ log' = c.log
        /\ wire' = SubSeq(wire, n + 1, Len(wire))
        /\ UNCHANGED <<sent, encVars, tempVars, sumVars>>

NextDec == Poll

SpecDec == InitDec /\ [][NextDec]_vars

----------------------------------------------------------------------------
(* Claims about the decoder, checked under SpecDec *)

C9_CorruptedFrameRecovery ==
    sent.kind = "corrupt" =>
        LET second == SubSeq(sent.stream, sent.first + 1, Len(sent.stream))
        IN  /\ dec.state # "Complete"
            /\ Fed <= sent.first => (published = sent.before /\ log = <<>>)
            /\ Fed = sent.first => dec = AwaitingSignatureEmpty
            /\ \A k \in 1..Len(log) : log[k].at > sent.first
            /\ wire = <<>> =>
                  /\ log = << [at |-> Len(sent.stream), state |-> DecodeFrame(second)] >>
                  /\ published = << DecodeFrame(second) >>
                  /\ dec = AwaitingSignatureEmpty

\* C9 witness: after the corrupted frame a well-formed frame was published
\* over an earlier published state
C9_Witness ==
    /\ sent.kind = "corrupt"
    /\ sent.before # <<>>
    /\ wire = <<>>
    /\ Len(log) = 1
    /\ published # sent.before

====
